---- MODULE Spec2Model ----
(***************************************************************************)
(* Order-edit workflow of the medusa backend: the OrderEdit entity with    *)
(* its derived status, the OrderEditService operations over order edits,   *)
(* their cloned line items and their item changes.                         *)
(*                                                                         *)
(* Every service method runs inside atomicPhase_ (one transaction), so in  *)
(* Spec each call is one atomic step.  SpecRace splits create into its     *)
(* read (retrieveActive) and its write (save + cloneTo), the two points    *)
(* at which two transactions under the default isolation level interleave. *)
(* SpecStatus applies OrderEdit.loadStatus to arbitrary timestamp columns. *)
(*                                                                         *)
(* Ids are opaque generated tokens; the id of a deleted row is handed out  *)
(* again only once no row refers to it, which no operation can observe.    *)
(***************************************************************************)
EXTENDS Integers, Sequences, FiniteSets, TLC

VARIABLES
    edits,        \* order_edit table: id -> row
    lineItems,    \* line_item table: id -> row
    changes,      \* order_item_change table: id -> row
    last,         \* outcome of the most recent service call: the error
                  \* kind it threw (or ok) and the events it emitted
    procs,        \* in-flight create transactions (SpecRace)
    probe,        \* an entity being loaded (SpecStatus)
    ledger,       \* idempotency_key table: key -> row (SpecTaxes)
    reqs          \* requests to POST /carts/:id/taxes (SpecTaxes)

vars == <<edits, lineItems, changes, last, procs, probe, ledger, reqs>>

----------------------------------------------------------------------------
(* Bounds of the model *)

MaxEdits == 2
MaxItems == 3
MaxChanges == 1
NumProcs == 2
NumReqs == 2
MaxStamp == 2

(* null / undefined column value *)
NULL == 0

(* new Date(): a set timestamp.  No operation reads the value of a *)
(* timestamp, only whether it is set.                               *)
now == 1

Orders == {1}
Quantities == {2}
Procs == 1..NumProcs
Users == {"u1"}
NoUser == "none"
Reasons == {"r1"}
NoText == "none"

(* OrderEditStatus *)
CONFIRMED == "confirmed"
DECLINED == "declined"
REQUESTED == "requested"
CREATED == "created"
CANCELED == "canceled"
UNDEFINED == "undefined"

(* what a line item's tax lines were computed over: the order it was *)
(* placed with, or the single-item cart of addLineItem               *)
OF_ORDER == "order"
OF_EDIT == "edit"

(* OrderEditItemChangeType *)
ITEM_ADD == "item_add"
ITEM_UPDATE == "item_update"

(* MedusaError.Types *)
OK == "ok"
NOT_FOUND == "not_found"
INVALID_DATA == "invalid_data"
NOT_ALLOWED == "not_allowed"
FAILED == "failed"

(* OrderEditService.Events *)
EvCreated == "order-edit.created"
EvUpdated == "order-edit.updated"
EvDeclined == "order-edit.declined"
EvRequested == "order-edit.requested"
EvCanceled == "order-edit.canceled"
EvConfirmed == "order-edit.confirmed"

----------------------------------------------------------------------------
(* OrderEdit.loadStatus: four independent ifs, each overriding the last,   *)
(* then the CREATED default when none assigned.                            *)

(* the confirmed and canceled checks in the opposite order *)
loadStatusConfirmedLast(oe) ==
    LET s1 == IF oe.requested_at # NULL THEN REQUESTED ELSE UNDEFINED
        s2 == IF oe.declined_at # NULL THEN DECLINED ELSE s1
        s3 == IF oe.canceled_at # NULL THEN CANCELED ELSE s2
        s4 == IF oe.confirmed_at # NULL THEN CONFIRMED ELSE s3
    IN  IF s4 = UNDEFINED THEN CREATED ELSE s4

loadStatus(oe) ==
    LET s1 == IF oe.requested_at # NULL THEN REQUESTED ELSE UNDEFINED
        s2 == IF oe.declined_at # NULL THEN DECLINED ELSE s1
        s3 == IF oe.confirmed_at # NULL THEN CONFIRMED ELSE s2
        s4 == IF oe.canceled_at # NULL THEN CANCELED ELSE s3
    IN  IF s4 = UNDEFINED THEN CREATED ELSE s4

(* status of a stored edit as retrieve() returns it (AfterLoad) *)
StatusOf(e) == loadStatus(edits[e])

(* OrderEditService.isOrderEditActive *)
isOrderEditActiveOrDeclined(oe) ==
    ~(loadStatus(oe) = CONFIRMED \/ loadStatus(oe) = CANCELED)

isOrderEditActive(oe) ==
    ~(loadStatus(oe) = CONFIRMED \/ loadStatus(oe) = CANCELED
        \/ loadStatus(oe) = DECLINED)

(* OrderEditService.retrieveActive: the edits findOne may return *)
(* a filter that takes a requested edit for a finished one *)
retrieveActiveUnrequested(o) ==
    {e \in DOMAIN edits :
        /\ edits[e].order_id = o
        /\ edits[e].requested_at = NULL
        /\ edits[e].confirmed_at = NULL
        /\ edits[e].canceled_at = NULL
        /\ edits[e].declined_at = NULL}

retrieveActive(o) ==
    {e \in DOMAIN edits :
        /\ edits[e].order_id = o
        /\ edits[e].confirmed_at = NULL
        /\ edits[e].canceled_at = NULL
        /\ edits[e].declined_at = NULL}

(* rows of an edit's `changes` relation *)
ChangesOf(e) == {c \in DOMAIN changes : changes[c].order_edit_id = e}

(* line items selected by order_id / by order_edit_id *)
ItemsOfOrder(o) == {i \in DOMAIN lineItems : lineItems[i].order_id = o}
ItemsOfEdit(e) == {i \in DOMAIN lineItems : lineItems[i].order_edit_id = e}

Result(result, events) == [result |-> result, events |-> events]

Event(name, id) == [name |-> name, id |-> id]

NewEdit(o, u) ==
    [order_id |-> o, internal_note |-> NoText, created_by |-> u,
     requested_at |-> NULL, requested_by |-> NoUser,
     confirmed_at |-> NULL, confirmed_by |-> NoUser,
     declined_at |-> NULL, declined_by |-> NoUser, declined_reason |-> NoText,
     canceled_at |-> NULL, canceled_by |-> NoUser]

(* the entity a transaction holds before it has loaded one *)
NoEdit == NewEdit(NULL, NoUser)

IdleProc == [pc |-> "idle", order_id |-> NULL, user |-> NoUser,
             result |-> "none", overlapped |-> {},
             order_edit_id |-> NULL, loaded |-> NoEdit]

(* idempotency_key rows and the responses of the tax-calculation route *)
STARTED == "started"
FINISHED == "finished"
TAX_LINES == "tax_lines"
HTTP_OK == 200
HTTP_CONFLICT == 409
HTTP_ERROR == 500
CartBody == "cart"
ErrorBody == "error"
UnknownBody == "Unknown recovery point"
KeyFailedBody == "Failed to create idempotency key"

Reqs == 1..NumReqs
ClientKeys == {1}

IdempotencyKey(rp, code, body) ==
    [recovery_point |-> rp, response_code |-> code, response_body |-> body,
     locked_at |-> NULL]

NoKey == IdempotencyKey(NoText, NULL, NoText)

NoResponse == [kind |-> "none", code |-> NULL, body |-> NoText]
Sent(code, body) == [kind |-> "sent", code |-> code, body |-> body]
Raised == [kind |-> "raised", code |-> NULL, body |-> NoText]

IdleReq == [pc |-> "idle", key |-> NULL, idempotencyKey |-> NoKey,
            found |-> NoKey, err |-> FALSE, ran |-> 0,
            response |-> NoResponse]

NoProbe == [requested_at |-> NULL, declined_at |-> NULL,
            confirmed_at |-> NULL, canceled_at |-> NULL,
            status |-> UNDEFINED]

----------------------------------------------------------------------------
(* One placed order with one line item, no edit yet *)
Init ==
    /\ edits = <<>>
    /\ lineItems = [i \in Orders |->
            [order_id |-> i, order_edit_id |-> NULL,
             original_item_id |-> NULL, quantity |-> 1,
             adjustments |-> {{i}}, tax_lines |-> OF_ORDER]]
    /\ changes = <<>>
    /\ last = Result(OK, <<>>)
    /\ procs = [p \in Procs |-> IdleProc]
    /\ probe = NoProbe
    /\ ledger = <<>>
    /\ reqs = <<>>

----------------------------------------------------------------------------
(* Collaborators whose effect on the tables the service relies on *)

Rank(S, i) == Cardinality({j \in S : j < i})

(* generateEntityId: ids no row of the table carries and no change record *)
(* still refers to, lowest first                                          *)
FreeEditIds ==
    (1..MaxEdits) \ (DOMAIN edits
                        \cup {changes[c].order_edit_id : c \in DOMAIN changes})
FreeItemIds ==
    (1..MaxItems) \ (DOMAIN lineItems
                        \cup {changes[c].line_item_id : c \in DOMAIN changes})
FreeChangeIds == (1..MaxChanges) \ DOMAIN changes
Lowest(S, n) == {i \in S : Rank(S, i) < n}
newEditId == CHOOSE i \in Lowest(FreeEditIds, 1) : TRUE
newItemId == CHOOSE i \in Lowest(FreeItemIds, 1) : TRUE
newChangeId == CHOOSE i \in Lowest(FreeChangeIds, 1) : TRUE

(* LineItemService.cloneTo(ids, {order_edit_id}): one new row per id, owned *)
(* by the edit, order_id unset, original_item_id pointing at the source row *)
cloneTo(ids, e) ==
    [n \in Lowest(FreeItemIds, Cardinality(ids)) |->
        LET src == CHOOSE i \in ids : Rank(ids, i) = Rank(FreeItemIds, n)
        IN  [order_id |-> NULL, order_edit_id |-> e,
             original_item_id |-> src,
             quantity |-> lineItems[src].quantity,
             adjustments |-> lineItems[src].adjustments,
             tax_lines |-> lineItems[src].tax_lines]]

(* LineItemService.update(selector, data) with a selector: a bulk update *)
UpdateWhereOrder(li, o, v) ==
    [i \in DOMAIN li |->
        IF li[i].order_id = o THEN [li[i] EXCEPT !.order_id = v] ELSE li[i]]

UpdateWhereEdit(li, e, v) ==
    [i \in DOMAIN li |->
        IF li[i].order_edit_id = e THEN [li[i] EXCEPT !.order_id = v]
        ELSE li[i]]

(* the two updates confirm hands to Promise.all, in either order of effect *)
ConfirmItems(li, e, o, attachFirst) ==
    IF attachFirst
    THEN UpdateWhereOrder(UpdateWhereEdit(li, e, o), o, NULL)
    ELSE UpdateWhereEdit(UpdateWhereOrder(li, o, NULL), e, o)

Restrict(f, S) == [x \in S |-> f[x]]

----------------------------------------------------------------------------
(* Guards of the service methods *)

(* confirm: [CANCELED, DECLINED].includes(status) *)
ConfirmForbiddenCanceledOnly(st) == st = CANCELED

ConfirmForbidden(st) == st \in {CANCELED, DECLINED}

(* decline: status !== REQUESTED *)
DeclineForbiddenNever(st) == FALSE

DeclineForbiddenFinalOnly(st) == st \in {CONFIRMED, CANCELED}

DeclineForbidden(st) == st # REQUESTED

(* delete: status !== CREATED *)
DeleteForbiddenFinalOnly(st) == st \in {CONFIRMED, DECLINED, CANCELED}

DeleteForbidden(st) == st # CREATED

(* cancel: [CONFIRMED, DECLINED].includes(status) *)
CancelForbiddenConfirmedOnly(st) == st = CONFIRMED

CancelForbidden(st) == st \in {CONFIRMED, DECLINED}

(* requestConfirmation: !orderEdit.changes?.length *)
HasNoChangesUnchecked(e) == FALSE

HasNoChanges(e) == ChangesOf(e) = {}

----------------------------------------------------------------------------
(* How a call ends without writing: a thrown MedusaError rolls the *)
(* transaction back, an early return commits nothing new           *)

Throw(kind) ==
    /\ last' = Result(kind, <<>>)
    /\ UNCHANGED <<edits, lineItems, changes>>

ReturnEmitting ==
    /\ last' = Result(OK, <<Event(EvUpdated, NULL)>>)
    /\ UNCHANGED <<edits, lineItems, changes>>

ReturnUnchanged ==
    /\ last' = Result(OK, <<>>)
    /\ UNCHANGED <<edits, lineItems, changes>>

(* OrderEditService.create, after the active-edit check passed *)
CreateFits(o) ==
    /\ FreeEditIds # {}
    /\ Cardinality(FreeItemIds) >= Cardinality(ItemsOfOrder(o))

CreateInsert(o, u) ==
    /\ edits' = edits @@ (newEditId :> NewEdit(o, u))
    /\ lineItems' = lineItems @@ cloneTo(ItemsOfOrder(o), newEditId)
    /\ last' = Result(OK, <<Event(EvCreated, newEditId)>>)
    /\ UNCHANGED changes

(* OrderEditService.create *)
Create(o, u) ==
    /\ IF retrieveActive(o) # {}
       THEN Throw(INVALID_DATA)
       ELSE CreateFits(o) /\ CreateInsert(o, u)
    /\ UNCHANGED <<procs, probe, ledger, reqs>>

(* update: every key of data with a defined value is assigned to the edit *)
Notes == {"n1"}
UpdateInputs == {<<>>} \cup [internal_note : Notes \cup {UNDEFINED}]

Assign(oe, data) ==
    [k \in DOMAIN oe |->
        IF k \in DOMAIN data /\ data[k] # UNDEFINED THEN data[k] ELSE oe[k]]

(* OrderEditService.update *)
Update(e, data) ==
    /\ IF e \notin DOMAIN edits
       THEN Throw(NOT_FOUND)
       ELSE /\ edits' = [edits EXCEPT ![e] = Assign(edits[e], data)]
            /\ last' = Result(OK, <<Event(EvUpdated, e)>>)
            /\ UNCHANGED <<lineItems, changes>>
    /\ UNCHANGED <<procs, probe, ledger, reqs>>

(* OrderEditService.delete with deleteClonedItems: the service removes the *)
(* edit's line items and the edit row.  It never deletes a change record,  *)
(* and the edit is loaded without its `changes`, so the entity's cascade   *)
(* has no rows to act on: whether the change records go with the edit is   *)
(* left to the foreign keys of the schema.                                 *)
Delete(e) ==
    /\ IF e \notin DOMAIN edits
       THEN ReturnUnchanged
       ELSE IF DeleteForbidden(StatusOf(e))
       THEN Throw(NOT_ALLOWED)
       ELSE /\ lineItems' = Restrict(lineItems,
                                DOMAIN lineItems \ ItemsOfEdit(e))
            /\ \E cascaded \in BOOLEAN :
                  changes' = IF cascaded
                             THEN Restrict(changes,
                                           DOMAIN changes \ ChangesOf(e))
                             ELSE changes
            /\ edits' = Restrict(edits, DOMAIN edits \ {e})
            /\ last' = Result(OK, <<>>)
    /\ UNCHANGED <<procs, probe, ledger, reqs>>

(* OrderEditService.decline *)
Decline(e, u, reason) ==
    /\ IF e \notin DOMAIN edits
       THEN Throw(NOT_FOUND)
       ELSE IF StatusOf(e) = DECLINED
       THEN ReturnUnchanged
       ELSE IF DeclineForbidden(StatusOf(e))
       THEN Throw(NOT_ALLOWED)
       ELSE /\ edits' = [edits EXCEPT ![e].declined_at = now,
                                      ![e].declined_by = u,
                                      ![e].declined_reason = reason]
            /\ last' = Result(OK, <<Event(EvDeclined, e)>>)
            /\ UNCHANGED <<lineItems, changes>>
    /\ UNCHANGED <<procs, probe, ledger, reqs>>

(* OrderEditService.requestConfirmation *)
RequestConfirmation(e, u) ==
    /\ IF e \notin DOMAIN edits
       THEN Throw(NOT_FOUND)
       ELSE IF HasNoChanges(e)
       THEN Throw(INVALID_DATA)
       ELSE IF edits[e].requested_at # NULL
       THEN ReturnUnchanged
       ELSE /\ edits' = [edits EXCEPT ![e].requested_at = now,
                                      ![e].requested_by = u]
            /\ last' = Result(OK, <<Event(EvRequested, e)>>)
            /\ UNCHANGED <<lineItems, changes>>
    /\ UNCHANGED <<procs, probe, ledger, reqs>>

(* OrderEditService.cancel *)
Cancel(e, u) ==
    /\ IF e \notin DOMAIN edits
       THEN Throw(NOT_FOUND)
       ELSE IF StatusOf(e) = CANCELED
       THEN ReturnUnchanged
       ELSE IF CancelForbidden(StatusOf(e))
       THEN Throw(NOT_ALLOWED)
       ELSE /\ edits' = [edits EXCEPT ![e].canceled_at = now,
                                      ![e].canceled_by = u]
            /\ last' = Result(OK, <<Event(EvCanceled, e)>>)
            /\ UNCHANGED <<lineItems, changes>>
    /\ UNCHANGED <<procs, probe, ledger, reqs>>

(* OrderEditService.confirm *)
Confirm(e, u) ==
    /\ IF e \notin DOMAIN edits
       THEN Throw(NOT_FOUND)
       ELSE IF ConfirmForbidden(StatusOf(e))
       THEN Throw(NOT_ALLOWED)
       ELSE IF StatusOf(e) = CONFIRMED
       THEN ReturnUnchanged
       ELSE /\ \E attachFirst \in BOOLEAN :
                  lineItems' = ConfirmItems(lineItems, e, edits[e].order_id,
                                            attachFirst)
            /\ edits' = [edits EXCEPT ![e].confirmed_at = now,
                                      ![e].confirmed_by = u]
            /\ last' = Result(OK, <<Event(EvConfirmed, e)>>)
            /\ UNCHANGED changes
    /\ UNCHANGED <<procs, probe, ledger, reqs>>

(* addLineItem: LineItemService.generate + create with order_edit_id *)
generateOnOrder(e, q) ==
    [order_id |-> edits[e].order_id, order_edit_id |-> e,
     original_item_id |-> NULL, quantity |-> q,
     adjustments |-> {}, tax_lines |-> NoText]

generate(e, q) ==
    [order_id |-> NULL, order_edit_id |-> e,
     original_item_id |-> NULL, quantity |-> q,
     adjustments |-> {}, tax_lines |-> NoText]

(* LineItemAdjustmentService.delete(ids of the adjustments of the items) *)
deleteAdjustmentsNone(li, e) == li

deleteAdjustments(li, e) ==
    [i \in DOMAIN li |->
        IF li[i].order_edit_id = e
        THEN [li[i] EXCEPT !.adjustments = {}] ELSE li[i]]

(* LineItemAdjustmentService.createAdjustments(localCart): every item of *)
(* the cart gets the adjustments computed over the cart's items; an      *)
(* adjustment is named by the item set it was computed over              *)
CartItems(li, e) == {i \in DOMAIN li : li[i].order_edit_id = e}

createAdjustments(li, e) ==
    [i \in DOMAIN li |->
        IF i \in CartItems(li, e)
        THEN [li[i] EXCEPT !.adjustments = @ \cup {CartItems(li, e)}]
        ELSE li[i]]

(* OrderEditService.refreshAdjustments: the adjustments of every item of *)
(* the edit are deleted and computed again over the edit's items         *)
refreshAdjustments(li, e) == createAdjustments(deleteAdjustments(li, e), e)

(* addLineItem: the items of the cart handed to createTaxLines *)
TaxedItemsOfEdit(li, e, n) == {i \in DOMAIN li : li[i].order_edit_id = e}

TaxedItems(li, e, n) == {n}

(* TaxProviderService.createTaxLines(items, calcContext) *)
createTaxLines(li, ids) ==
    [i \in DOMAIN li |->
        IF i \in ids THEN [li[i] EXCEPT !.tax_lines = OF_EDIT] ELSE li[i]]

(* OrderEditService.addLineItem *)
AddLineItem(e, q) ==
    /\ IF e \notin DOMAIN edits
       THEN Throw(NOT_FOUND)
       ELSE IF ~isOrderEditActive(edits[e])
       THEN Throw(NOT_ALLOWED)
       ELSE /\ FreeItemIds # {}
            /\ FreeChangeIds # {}
            /\ lineItems' =
                  LET created == lineItems @@ (newItemId :> generate(e, q))
                      refreshed == refreshAdjustments(created, e)
                  IN  createTaxLines(refreshed,
                                     TaxedItems(refreshed, e, newItemId))
            /\ changes' = changes @@ (newChangeId :>
                    [type |-> ITEM_ADD, order_edit_id |-> e,
                     line_item_id |-> newItemId,
                     original_line_item_id |-> NULL])
            /\ last' = Result(OK, <<>>)
            /\ UNCHANGED edits
    /\ UNCHANGED <<procs, probe, ledger, reqs>>

(* OrderEditItemChangeService.list({line_item_id}).pop(): the last match *)
ChangesForItemAny(i) == DOMAIN changes

ChangesForItem(i) == {c \in DOMAIN changes : changes[c].line_item_id = i}

LastChangeFor(i) ==
    CHOOSE c \in ChangesForItem(i) : \A d \in ChangesForItem(i) : d <= c

(* OrderEditService.updateLineItem *)
UpdateLineItem(e, i, q) ==
    /\ IF e \notin DOMAIN edits
       THEN Throw(NOT_FOUND)
       ELSE IF ~isOrderEditActive(edits[e])
       THEN Throw(NOT_ALLOWED)
       ELSE IF i \notin DOMAIN lineItems
       THEN Throw(NOT_FOUND)
       ELSE IF lineItems[i].order_edit_id # e
       THEN Throw(INVALID_DATA)
       ELSE /\ IF ChangesForItem(i) = {}
               THEN /\ FreeChangeIds # {}
                    /\ changes' = changes @@ (newChangeId :>
                          [type |-> ITEM_UPDATE, order_edit_id |-> e,
                           line_item_id |-> i,
                           original_line_item_id |->
                               lineItems[i].original_item_id])
                    /\ lineItems' = refreshAdjustments(
                          [lineItems EXCEPT ![i].quantity = q], e)
               ELSE /\ lineItems' = refreshAdjustments(
                          [lineItems EXCEPT
                             ![changes[LastChangeFor(i)].line_item_id].quantity
                                 = q], e)
                    /\ UNCHANGED changes
            /\ last' = Result(OK, <<>>)
            /\ UNCHANGED edits
    /\ UNCHANGED <<procs, probe, ledger, reqs>>

(* deleteItemChange: confirmed_at !== null || canceled_at !== null *)
ChangesLockedConfirmedOnly(oe) == oe.confirmed_at # NULL

ChangesLocked(oe) == oe.confirmed_at # NULL \/ oe.canceled_at # NULL

(* OrderEditService.deleteItemChange *)
DeleteItemChange(e, c) ==
    /\ IF c \notin DOMAIN changes \/ e \notin DOMAIN edits
       THEN Throw(NOT_FOUND)
       ELSE IF e # changes[c].order_edit_id
       THEN Throw(INVALID_DATA)
       ELSE IF ChangesLocked(edits[e])
       THEN Throw(NOT_ALLOWED)
       ELSE /\ changes' = Restrict(changes, DOMAIN changes \ {c})
            /\ last' = Result(OK, <<>>)
            /\ UNCHANGED <<edits, lineItems>>
    /\ UNCHANGED <<procs, probe, ledger, reqs>>

----------------------------------------------------------------------------
(* Totals of an edit.  Every line item is priced alike and taxed at the  *)
(* region's flat rate; there are no discounts, shipping methods or gift  *)
(* cards.                                                                *)
UnitPrice == 1000
TaxRate == 10

RECURSIVE SumOver(_, _)
SumOver(f, S) ==
    IF S = {} THEN 0
    ELSE LET x == CHOOSE y \in S : TRUE
         IN  f[x] + SumOver(f, S \ {x})

(* TotalsService.getSubtotal(order) *)
getSubtotal(order) ==
    SumOver([i \in order.items |-> lineItems[i].quantity * UnitPrice],
            order.items)

(* TotalsService.getTaxTotal(order): the tax lines of the items applied *)
getTaxTotal(order) ==
    SumOver([i \in order.items |->
                IF lineItems[i].tax_lines = NoText THEN 0
                ELSE (lineItems[i].quantity * UnitPrice * TaxRate) \div 100],
            order.items)

(* TotalsService.getTotal(order) *)
getTotal(order) == getSubtotal(order) + getTaxTotal(order)

(* getTotals, line 144: { ...order, items } *)
computedOrderLive(e) ==
    [order_id |-> edits[e].order_id,
     items |-> ItemsOfOrder(edits[e].order_id)]

computedOrder(e) ==
    [order_id |-> edits[e].order_id, items |-> ItemsOfEdit(e)]

(* what getTotals returns *)
Totals(e) ==
    [shipping_total |-> 0, gift_card_total |-> 0, gift_card_tax_total |-> 0,
     discount_total |-> 0,
     tax_total |-> getTaxTotal(computedOrder(e)),
     subtotal |-> getSubtotal(computedOrder(e)),
     total |-> getTotal(computedOrder(e))]

(* OrderEditService.getTotals *)
getTotals(e) ==
    /\ IF e \notin DOMAIN edits
       THEN Throw(NOT_FOUND)
       ELSE /\ last' = [result |-> OK, events |-> <<>>, totals |-> Totals(e)]
            /\ UNCHANGED <<edits, lineItems, changes>>
    /\ UNCHANGED <<procs, probe, ledger, reqs>>

----------------------------------------------------------------------------
(* A step of addLineItem or updateLineItem throws: the writes made up to *)
(* the throw, and what atomicPhase_ leaves of them                      *)

Written(li, ch) == [lineItems |-> li, changes |-> ch]

(* TransactionBaseService.atomicPhase_: the work's writes are committed *)
(* when it returns and rolled back when it throws                       *)
atomicPhaseKeepsWrites(before, after, returned) == after

atomicPhase_(before, after, returned) == IF returned THEN after ELSE before

(* addLineItem, lines 483-516: the state after each of its writes *)
AddLineItemWrites(e, q) ==
    LET created == lineItems @@ (newItemId :> generate(e, q))
        deleted == deleteAdjustments(created, e)
        refreshed == createAdjustments(deleted, e)
        change == changes @@ (newChangeId :>
                      [type |-> ITEM_ADD, order_edit_id |-> e,
                       line_item_id |-> newItemId,
                       original_line_item_id |-> NULL])
        taxed == createTaxLines(refreshed,
                                TaxedItems(refreshed, e, newItemId))
    IN  << Written(lineItems, changes),
           Written(created, changes),
           Written(deleted, changes),
           Written(refreshed, changes),
           Written(refreshed, change),
           Written(taxed, change) >>

(* addLineItem throws after `done` of its writes *)
AddLineItemThrows(e, q, done) ==
    /\ e \in DOMAIN edits
    /\ isOrderEditActive(edits[e])
    /\ FreeItemIds # {}
    /\ FreeChangeIds # {}
    /\ done \in 0..4
    /\ LET w == AddLineItemWrites(e, q)
           kept == atomicPhase_(w[1], w[done + 1], FALSE)
       IN  /\ lineItems' = kept.lineItems
           /\ changes' = kept.changes
    /\ last' = Result(FAILED, <<>>)
    /\ UNCHANGED edits
    /\ UNCHANGED <<procs, probe, ledger, reqs>>

(* updateLineItem, lines 373-388: the state after each of its writes *)
UpdateLineItemWrites(e, i, q) ==
    LET change == IF ChangesForItem(i) = {}
                  THEN changes @@ (newChangeId :>
                          [type |-> ITEM_UPDATE, order_edit_id |-> e,
                           line_item_id |-> i,
                           original_line_item_id |->
                               lineItems[i].original_item_id])
                  ELSE changes
        updated == [lineItems EXCEPT ![i].quantity = q]
        deleted == deleteAdjustments(updated, e)
        refreshed == createAdjustments(deleted, e)
    IN  << Written(lineItems, changes),
           Written(lineItems, change),
           Written(updated, change),
           Written(deleted, change),
           Written(refreshed, change) >>

(* updateLineItem throws after `done` of its writes *)
UpdateLineItemThrows(e, i, q, done) ==
    /\ e \in DOMAIN edits
    /\ isOrderEditActive(edits[e])
    /\ i \in DOMAIN lineItems
    /\ lineItems[i].order_edit_id = e
    /\ ChangesForItem(i) = {} => FreeChangeIds # {}
    /\ done \in 0..3
    /\ LET w == UpdateLineItemWrites(e, i, q)
           kept == atomicPhase_(w[1], w[done + 1], FALSE)
       IN  /\ lineItems' = kept.lineItems
           /\ changes' = kept.changes
    /\ last' = Result(FAILED, <<>>)
    /\ UNCHANGED edits
    /\ UNCHANGED <<procs, probe, ledger, reqs>>

----------------------------------------------------------------------------
(* Concurrent create transactions: the read of retrieveActive and the    *)
(* insert are separate statements, and a transaction does not see another *)
(* transaction's uncommitted insert.                                      *)

InFlight == {p \in Procs : procs[p].pc = "insert"}

(* create, lines 171-177: the active-edit check *)
CreateCheck(p, o, u) ==
    /\ procs[p].pc = "idle"
    /\ IF retrieveActive(o) # {}
       THEN /\ procs' = [procs EXCEPT ![p] =
                    [IdleProc EXCEPT !.pc = "done", !.order_id = o,
                                     !.user = u, !.result = INVALID_DATA,
                                     !.overlapped = InFlight]]
            /\ Throw(INVALID_DATA)
       ELSE /\ procs' = [procs EXCEPT ![p] =
                    [IdleProc EXCEPT !.pc = "insert", !.order_id = o,
                                     !.user = u, !.overlapped = InFlight]]
            /\ UNCHANGED <<edits, lineItems, changes, last>>
    /\ UNCHANGED <<probe, ledger, reqs>>

(* create, lines 179-211: save, cloneTo, emit, commit *)
CreateCommit(p) ==
    /\ procs[p].pc = "insert"
    /\ CreateFits(procs[p].order_id)
    /\ CreateInsert(procs[p].order_id, procs[p].user)
    /\ procs' = [procs EXCEPT ![p].pc = "done", ![p].result = OK]
    /\ UNCHANGED <<probe, ledger, reqs>>

----------------------------------------------------------------------------
(* Concurrent confirm and cancel transactions: retrieve() and the guards *)
(* on the loaded status come first, the writes follow, and no lock is    *)
(* held on the row in between.                                           *)

Finalizing == {p \in Procs : procs[p].pc \in {"confirm", "cancel"}}

(* orderEditRepository.save(orderEdit): the loaded entity with the     *)
(* fields the call assigned is persisted, either as the whole row or   *)
(* as the columns that differ from what was loaded                     *)
save(cur, loaded, entity, whole) ==
    IF whole THEN entity
    ELSE [f \in DOMAIN cur |->
            IF entity[f] # loaded[f] THEN entity[f] ELSE cur[f]]

(* how a transaction ends at one of its guards *)
ProcEnds(p, e, u, result) ==
    procs' = [procs EXCEPT ![p] =
                 [IdleProc EXCEPT !.pc = "done", !.order_edit_id = e,
                                  !.user = u, !.result = result,
                                  !.overlapped = Finalizing]]

ProcLoads(p, e, u, pc) ==
    procs' = [procs EXCEPT ![p] =
                 [IdleProc EXCEPT !.pc = pc, !.order_edit_id = e,
                                  !.user = u, !.loaded = edits[e],
                                  !.overlapped = Finalizing]]

(* confirm, lines 636-655: retrieve and the guards on the status *)
ConfirmRead(p, e, u) ==
    /\ procs[p].pc = "idle"
    /\ IF e \notin DOMAIN edits
       THEN ProcEnds(p, e, u, NOT_FOUND) /\ Throw(NOT_FOUND)
       ELSE IF ConfirmForbidden(StatusOf(e))
       THEN ProcEnds(p, e, u, NOT_ALLOWED) /\ Throw(NOT_ALLOWED)
       ELSE IF StatusOf(e) = CONFIRMED
       THEN ProcEnds(p, e, u, OK) /\ ReturnUnchanged
       ELSE /\ ProcLoads(p, e, u, "confirm")
            /\ UNCHANGED <<edits, lineItems, changes, last>>
    /\ UNCHANGED <<probe, ledger, reqs>>

(* confirm, lines 657-678: the two bulk updates, save, emit, commit *)
ConfirmWrite(p) ==
    /\ procs[p].pc = "confirm"
    /\ LET e == procs[p].order_edit_id
           loaded == procs[p].loaded
           entity == [loaded EXCEPT !.confirmed_at = now,
                                    !.confirmed_by = procs[p].user]
       IN  /\ \E attachFirst \in BOOLEAN :
                 lineItems' = ConfirmItems(lineItems, e, loaded.order_id,
                                           attachFirst)
           /\ \E whole \in BOOLEAN :
                 edits' = [edits EXCEPT
                             ![e] = save(edits[e], loaded, entity, whole)]
           /\ last' = Result(OK, <<Event(EvConfirmed, e)>>)
    /\ procs' = [procs EXCEPT ![p].pc = "done", ![p].result = OK]
    /\ UNCHANGED <<changes, probe, ledger, reqs>>

(* cancel, lines 597-616: retrieve and the guards on the status *)
CancelRead(p, e, u) ==
    /\ procs[p].pc = "idle"
    /\ IF e \notin DOMAIN edits
       THEN ProcEnds(p, e, u, NOT_FOUND) /\ Throw(NOT_FOUND)
       ELSE IF StatusOf(e) = CANCELED
       THEN ProcEnds(p, e, u, OK) /\ ReturnUnchanged
       ELSE IF CancelForbidden(StatusOf(e))
       THEN ProcEnds(p, e, u, NOT_ALLOWED) /\ Throw(NOT_ALLOWED)
       ELSE /\ ProcLoads(p, e, u, "cancel")
            /\ UNCHANGED <<edits, lineItems, changes, last>>
    /\ UNCHANGED <<probe, ledger, reqs>>

(* cancel, lines 618-627: save, emit, commit *)
CancelWrite(p) ==
    /\ procs[p].pc = "cancel"
    /\ LET e == procs[p].order_edit_id
           loaded == procs[p].loaded
           entity == [loaded EXCEPT !.canceled_at = now,
                                    !.canceled_by = procs[p].user]
       IN  /\ \E whole \in BOOLEAN :
                 edits' = [edits EXCEPT
                             ![e] = save(edits[e], loaded, entity, whole)]
           /\ last' = Result(OK, <<Event(EvCanceled, e)>>)
    /\ procs' = [procs EXCEPT ![p].pc = "done", ![p].result = OK]
    /\ UNCHANGED <<lineItems, changes, probe, ledger, reqs>>

----------------------------------------------------------------------------
(* POST /carts/:id/taxes: the recovery-point loop over the idempotency   *)
(* key of the request.  Each await of the handler is a step of its own.  *)

(* the key an empty Idempotency-Key header is replaced by *)
GenKey(r) == Cardinality(ClientKeys) + r

(* switch (idempotencyKey.recovery_point) *)
StageOfKnownOnly(rp) == IF rp = STARTED THEN STARTED ELSE FINISHED

StageOfFinishedUnknown(rp) == IF rp = STARTED THEN STARTED ELSE "default"

StageOfRerun(rp) == IF rp \in {STARTED, FINISHED} THEN STARTED ELSE "default"

StageOf(rp) == IF rp \in {STARTED, FINISHED} THEN rp ELSE "default"

(* IdempotencyKeyService.initializeRequest: the row of the key, created *)
(* at `started` when there is none                                      *)
initializeRequest(k) ==
    IF k \in DOMAIN ledger THEN ledger
    ELSE ledger @@ (k :> IdempotencyKey(STARTED, NULL, NoText))

(* IdempotencyKeyService.workStage: an exclusive lock on the row is     *)
(* taken, or the call fails at once when the row is locked              *)
StageLockedNever(row) == FALSE

StageLocked(row) == row.locked_at # NULL

lockStage(row) == [row EXCEPT !.locked_at = now]

(* IdempotencyKeyService.workStage: the stage's response is persisted   *)
(* as the finished row and the lock released; a stage that throws       *)
(* leaves a finished row with an error response and is reported as      *)
(* `error`                                                              *)
workStage(k, ok) ==
    IF ok THEN IdempotencyKey(FINISHED, HTTP_OK, CartBody)
    ELSE IdempotencyKey(FINISHED, HTTP_ERROR, ErrorBody)

TaxFrame == UNCHANGED <<edits, lineItems, changes, last, procs, probe>>

(* lines 50-67: initializeRequest in its own transaction *)
TaxInit(r, header) ==
    /\ r \notin DOMAIN reqs
    /\ LET k == IF header = NULL THEN GenKey(r) ELSE header
       IN  /\ ledger' = initializeRequest(k)
           /\ reqs' = reqs @@ (r :>
                  [IdleReq EXCEPT !.pc = "loop", !.key = k,
                                  !.idempotencyKey = ledger'[k],
                                  !.found =
                                      IF k \in DOMAIN ledger THEN ledger[k]
                                      ELSE NoKey])
    /\ TaxFrame

(* lines 60-64: initializeRequest threw *)
TaxInitFails(r) ==
    /\ r \notin DOMAIN reqs
    /\ reqs' = reqs @@ (r :>
           [IdleReq EXCEPT !.pc = "done",
                           !.response = Sent(HTTP_CONFLICT, KeyFailedBody)])
    /\ UNCHANGED ledger
    /\ TaxFrame

(* lines 76-99: case "started", workStage is called: the row is locked *)
(* and the stage begins, or the row is locked by another worker and    *)
(* the call fails (lines 112-114)                                      *)
TaxStarted(r) ==
    /\ r \in DOMAIN reqs
    /\ reqs[r].pc = "loop"
    /\ StageOf(reqs[r].idempotencyKey.recovery_point) = STARTED
    /\ IF StageLocked(ledger[reqs[r].key])
       THEN /\ reqs' = [reqs EXCEPT ![r].pc = "exit", ![r].err = TRUE]
            /\ UNCHANGED ledger
       ELSE /\ ledger' = [ledger EXCEPT ![reqs[r].key] = lockStage(@)]
            /\ reqs' = [reqs EXCEPT ![r].pc = "stage", ![r].ran = @ + 1]
    /\ TaxFrame

(* lines 83-117: the stage retrieves the cart and computes its taxes,  *)
(* or throws; workStage persists the outcome                           *)
TaxStage(r, ok) ==
    /\ r \in DOMAIN reqs
    /\ reqs[r].pc = "stage"
    /\ ledger' = [ledger EXCEPT ![reqs[r].key] = workStage(reqs[r].key, ok)]
    /\ reqs' = IF ok
               THEN [reqs EXCEPT ![r].pc = "loop",
                                 ![r].idempotencyKey = ledger'[reqs[r].key]]
               ELSE [reqs EXCEPT ![r].pc = "exit", ![r].err = TRUE]
    /\ TaxFrame

(* lines 122-125: case "finished" *)
TaxFinished(r) ==
    /\ r \in DOMAIN reqs
    /\ reqs[r].pc = "loop"
    /\ StageOf(reqs[r].idempotencyKey.recovery_point) = FINISHED
    /\ reqs' = [reqs EXCEPT ![r].pc = "exit"]
    /\ UNCHANGED ledger
    /\ TaxFrame

(* lines 127-137: default, an unknown recovery point *)
TaxUnknown(r) ==
    /\ r \in DOMAIN reqs
    /\ reqs[r].pc = "loop"
    /\ StageOf(reqs[r].idempotencyKey.recovery_point) = "default"
    /\ ledger' = [ledger EXCEPT ![reqs[r].key] =
                      [@ EXCEPT !.recovery_point = FINISHED,
                                !.response_code = HTTP_ERROR,
                                !.response_body = UnknownBody]]
    /\ reqs' = [reqs EXCEPT ![r].idempotencyKey = ledger'[reqs[r].key]]
    /\ TaxFrame

(* lines 141-145: throw err, or send the response of the key *)
TaxRespond(r) ==
    /\ r \in DOMAIN reqs
    /\ reqs[r].pc = "exit"
    /\ reqs' = [reqs EXCEPT
                  ![r].pc = "done",
                  ![r].response =
                      IF reqs[r].err THEN Raised
                      ELSE Sent(reqs[r].idempotencyKey.response_code,
                                reqs[r].idempotencyKey.response_body)]
    /\ UNCHANGED ledger
    /\ TaxFrame

(* the rows a key may have been left with by earlier requests *)
StoredKeys ==
    {IdempotencyKey(STARTED, NULL, NoText),
     IdempotencyKey(TAX_LINES, NULL, NoText),
     IdempotencyKey(FINISHED, HTTP_OK, CartBody),
     IdempotencyKey(FINISHED, HTTP_ERROR, ErrorBody)}

InitTaxes ==
    /\ edits = <<>>
    /\ lineItems = <<>>
    /\ changes = <<>>
    /\ last = Result(OK, <<>>)
    /\ procs = [p \in Procs |-> IdleProc]
    /\ probe = NoProbe
    /\ ledger \in {<<>>} \cup {[k \in ClientKeys |-> row] : row \in StoredKeys}
    /\ reqs = <<>>

NextTaxes ==
    \/ \E r \in Reqs, header \in ClientKeys \cup {NULL} : TaxInit(r, header)
    \/ \E r \in Reqs : TaxInitFails(r)
    \/ \E r \in Reqs : TaxStarted(r)
    \/ \E r \in Reqs, ok \in BOOLEAN : TaxStage(r, ok)
    \/ \E r \in Reqs : TaxFinished(r)
    \/ \E r \in Reqs : TaxUnknown(r)
    \/ \E r \in Reqs : TaxRespond(r)

SpecTaxes == InitTaxes /\ [][NextTaxes]_vars

----------------------------------------------------------------------------
(* An entity load: the AfterLoad hook fills status from the columns *)

Stamps == {NULL} \cup (1..MaxStamp)

LoadProbe ==
    /\ probe.status = UNDEFINED
    /\ probe' = [probe EXCEPT !.status = loadStatus(probe)]
    /\ UNCHANGED <<edits, lineItems, changes, last, procs, ledger, reqs>>

InitStatus ==
    /\ edits = <<>>
    /\ lineItems = <<>>
    /\ changes = <<>>
    /\ last = Result(OK, <<>>)
    /\ procs = [p \in Procs |-> IdleProc]
    /\ probe \in [requested_at : Stamps, declined_at : Stamps,
                  confirmed_at : Stamps, canceled_at : Stamps,
                  status : {UNDEFINED}]
    /\ ledger = <<>>
    /\ reqs = <<>>

----------------------------------------------------------------------------
(* Arguments of a call: the ids that resolve to a row, and one that does not *)
EditArgs == DOMAIN edits \cup {NULL}
ItemArgs == DOMAIN lineItems \cup {NULL}
ChangeArgs == DOMAIN changes \cup {NULL}

Next ==
    \/ \E o \in Orders, u \in Users : Create(o, u)
    \/ \E e \in EditArgs : Delete(e)
    \/ \E e \in EditArgs, u \in Users, r \in Reasons : Decline(e, u, r)
    \/ \E e \in EditArgs, u \in Users : RequestConfirmation(e, u)
    \/ \E e \in EditArgs, u \in Users : Cancel(e, u)
    \/ \E e \in EditArgs, u \in Users : Confirm(e, u)
    \/ \E e \in EditArgs, q \in Quantities : AddLineItem(e, q)
    \/ \E e \in EditArgs, i \in ItemArgs, q \in Quantities :
            UpdateLineItem(e, i, q)
    \/ \E e \in EditArgs, c \in ChangeArgs : DeleteItemChange(e, c)

Spec == Init /\ [][Next]_vars

NextRace ==
    \/ \E p \in Procs, o \in Orders, u \in Users : CreateCheck(p, o, u)
    \/ \E p \in Procs : CreateCommit(p)
    \/ \E e \in EditArgs, u \in Users : Cancel(e, u)
    \/ \E e \in EditArgs, q \in Quantities : AddLineItem(e, q)
    \/ \E e \in EditArgs, u \in Users : RequestConfirmation(e, u)

SpecRace == Init /\ [][NextRace]_vars

(* Confirm and cancel as concurrent transactions on the edits that the *)
(* other calls have opened, changed and requested                      *)
NextFinalRace ==
    \/ \E o \in Orders, u \in Users : Create(o, u)
    \/ \E e \in EditArgs, q \in Quantities : AddLineItem(e, q)
    \/ \E e \in EditArgs, u \in Users : RequestConfirmation(e, u)
    \/ \E p \in Procs, e \in EditArgs, u \in Users : ConfirmRead(p, e, u)
    \/ \E p \in Procs : ConfirmWrite(p)
    \/ \E p \in Procs, e \in EditArgs, u \in Users : CancelRead(p, e, u)
    \/ \E p \in Procs : CancelWrite(p)

SpecFinalRace == Init /\ [][NextFinalRace]_vars

NextStatus == LoadProbe

(* The operations that emit a lifecycle event, and addLineItem, which *)
(* gives an edit the change a request needs                           *)
NextEvents ==
    \/ \E o \in Orders, u \in Users : Create(o, u)
    \/ \E e \in EditArgs, data \in UpdateInputs : Update(e, data)
    \/ \E e \in EditArgs, u \in Users : RequestConfirmation(e, u)
    \/ \E e \in EditArgs, u \in Users, r \in Reasons : Decline(e, u, r)
    \/ \E e \in EditArgs, u \in Users : Cancel(e, u)
    \/ \E e \in EditArgs, u \in Users : Confirm(e, u)
    \/ \E e \in EditArgs, q \in Quantities : AddLineItem(e, q)

SpecEvents == Init /\ [][NextEvents]_vars

(* The item operations of an edit with several quantities to choose from, *)
(* next to the calls that open and close an edit                          *)
ItemQuantities == {2, 3}

NextItems ==
    \/ \E o \in Orders, u \in Users : Create(o, u)
    \/ \E e \in EditArgs, u \in Users : Cancel(e, u)
    \/ \E e \in EditArgs, q \in ItemQuantities : AddLineItem(e, q)
    \/ \E e \in EditArgs, i \in ItemArgs, q \in ItemQuantities :
            UpdateLineItem(e, i, q)
    \/ \E e \in EditArgs, c \in ChangeArgs : DeleteItemChange(e, c)

SpecItems == Init /\ [][NextItems]_vars

(* The item operations together with their runs that throw midway *)
NextAtomic ==
    \/ NextItems
    \/ \E e \in EditArgs, q \in ItemQuantities, done \in 0..4 :
          AddLineItemThrows(e, q, done)
    \/ \E e \in EditArgs, i \in ItemArgs, q \in ItemQuantities, done \in 0..3 :
          UpdateLineItemThrows(e, i, q, done)

SpecAtomic == Init /\ [][NextAtomic]_vars

(* The item operations together with the reading of an edit's totals *)
NextTotals ==
    \/ NextItems
    \/ \E e \in EditArgs : getTotals(e)

SpecTotals == Init /\ [][NextTotals]_vars

(* A request that has entered the handler keeps running: every await *)
(* of the handler returns                                            *)
TaxStep(r) ==
    \/ TaxStarted(r)
    \/ \E ok \in BOOLEAN : TaxStage(r, ok)
    \/ TaxFinished(r)
    \/ TaxUnknown(r)
    \/ TaxRespond(r)

SpecTaxesLive == SpecTaxes /\ \A r \in Reqs : WF_vars(TaxStep(r))

SpecStatus == InitStatus /\ [][NextStatus]_vars

----------------------------------------------------------------------------
(* Properties *)

StatusAfter(e) == loadStatus(edits'[e])

(* the edits of an order with no terminal timestamp *)
ActiveEditsOf(o) ==
    {e \in DOMAIN edits :
        /\ edits[e].order_id = o
        /\ edits[e].confirmed_at = NULL
        /\ edits[e].canceled_at = NULL
        /\ edits[e].declined_at = NULL}

(* C1: with every call one atomic step, every order has at most one edit *)
(* whose confirmed_at, canceled_at and declined_at are all null.         *)
C1_AtMostOneActiveEdit ==
    \A o \in Orders : Cardinality(ActiveEditsOf(o)) <= 1

(* a second edit was created for an order once its first edit was final *)
C1_Witness ==
    \E e1, e2 \in DOMAIN edits :
        /\ e1 # e2
        /\ edits[e1].order_id = edits[e2].order_id
        /\ e1 \notin ActiveEditsOf(edits[e1].order_id)
        /\ e2 \in ActiveEditsOf(edits[e2].order_id)

(* C2: of two create calls for the same order that run concurrently,     *)
(* exactly one succeeds and the other fails with InvalidData, and two    *)
(* active edits for the same order never coexist.                        *)
Concurrent(p, q) ==
    p \in procs[q].overlapped \/ q \in procs[p].overlapped

C2_ConcurrentCreateExclusive ==
    /\ \A o \in Orders : Cardinality(ActiveEditsOf(o)) <= 1
    /\ \A p, q \in Procs :
          ( /\ p # q
            /\ procs[p].pc = "done" /\ procs[q].pc = "done"
            /\ procs[p].order_id = procs[q].order_id
            /\ Concurrent(p, q) )
          => ( /\ {procs[p].result, procs[q].result} = {OK, INVALID_DATA} )

(* C3 as stated: a status changes only along CREATED->REQUESTED,         *)
(* REQUESTED->CONFIRMED, REQUESTED->DECLINED, CREATED->CANCELED,         *)
(* REQUESTED->CANCELED.                                                  *)
ClaimedTransitions ==
    { <<CREATED, REQUESTED>>, <<REQUESTED, CONFIRMED>>,
      <<REQUESTED, DECLINED>>, <<CREATED, CANCELED>>,
      <<REQUESTED, CANCELED>> }

StatusChangesWithin(T) ==
    \A e \in DOMAIN edits \cap DOMAIN edits' :
        StatusOf(e) # StatusAfter(e) => <<StatusOf(e), StatusAfter(e)>> \in T

Both(i) == lineItems[i].order_id # NULL /\ lineItems[i].order_edit_id # NULL
Neither(i) == lineItems[i].order_id = NULL /\ lineItems[i].order_edit_id = NULL

(* C4: after a successful confirm of edit E on order O the line items    *)
(* whose order_id is O are exactly those whose order_edit_id is E, and   *)
(* every line item O had before the call has order_id null, in whichever *)
(* order the two bulk updates take effect.                               *)
C4_ConfirmHandsItemsOver ==
    [][\A e \in DOMAIN edits, u \in Users :
          (Confirm(e, u) /\ last'.events = <<Event(EvConfirmed, e)>>)
          => /\ {i \in DOMAIN lineItems' :
                    lineItems'[i].order_id = edits[e].order_id}
                = {i \in DOMAIN lineItems' : lineItems'[i].order_edit_id = e}
             /\ \A i \in ItemsOfOrder(edits[e].order_id) :
                    lineItems'[i].order_id = NULL]_vars

ClaimedStatus(oe) ==
    IF oe.canceled_at # NULL THEN CANCELED
    ELSE IF oe.confirmed_at # NULL THEN CONFIRMED
    ELSE IF oe.declined_at # NULL THEN DECLINED
    ELSE IF oe.requested_at # NULL THEN REQUESTED
    ELSE CREATED

C6_StatusFromTimestamps ==
    probe.status # UNDEFINED => probe.status = ClaimedStatus(probe)

(* an entity with all four timestamps set has been loaded as CANCELED *)
C6_Witness ==
    /\ probe.status = CANCELED
    /\ probe.requested_at # NULL /\ probe.declined_at # NULL
    /\ probe.confirmed_at # NULL /\ probe.canceled_at # NULL

(* the state is the outcome of the call A made in it: A writes nothing *)
(* and ends the way `last` records                                     *)
Unchanged == UNCHANGED <<edits, lineItems, changes>>

(* C7: confirm on a CANCELED or DECLINED edit fails with NotAllowed and  *)
(* changes no timestamp and no line item; confirm on a CONFIRMED edit    *)
(* returns it unchanged, moves no line item and emits no event.          *)
C7_ConfirmGuards ==
    [][\A e \in DOMAIN edits, u \in Users :
          Confirm(e, u) =>
             /\ StatusOf(e) \in {CANCELED, DECLINED} =>
                   last' = Result(NOT_ALLOWED, <<>>) /\ Unchanged
             /\ StatusOf(e) = CONFIRMED =>
                   last' = Result(OK, <<>>) /\ Unchanged]_vars

(* confirm has just been refused on a declined edit, next to an edit *)
(* that is confirmed                                                 *)
C7_Witness ==
    \E e, f \in DOMAIN edits, u \in Users :
        /\ StatusOf(e) = DECLINED
        /\ StatusOf(f) = CONFIRMED
        /\ last = Result(NOT_ALLOWED, <<>>)
        /\ ENABLED (Confirm(e, u) /\ UNCHANGED vars)

(* C8: decline on a REQUESTED edit sets declined_at, declined_by and     *)
(* declined_reason; on a DECLINED edit it returns the edit unchanged and *)
(* emits no event; on a CREATED, CONFIRMED or CANCELED edit it fails     *)
(* with NotAllowed and leaves the edit unchanged.                        *)
C8_DeclineGuards ==
    [][\A e \in DOMAIN edits, u \in Users, r \in Reasons :
          Decline(e, u, r) =>
             /\ StatusOf(e) = REQUESTED =>
                   /\ last' = Result(OK, <<Event(EvDeclined, e)>>)
                   /\ edits' = [edits EXCEPT ![e].declined_at = now,
                                             ![e].declined_by = u,
                                             ![e].declined_reason = r]
                   /\ now # NULL
             /\ StatusOf(e) = DECLINED =>
                   last' = Result(OK, <<>>) /\ Unchanged
             /\ StatusOf(e) \in {CREATED, CONFIRMED, CANCELED} =>
                   last' = Result(NOT_ALLOWED, <<>>) /\ Unchanged]_vars

(* decline has just been refused on an edit nobody requested *)
C8_Witness ==
    \E e \in DOMAIN edits, u \in Users, r \in Reasons :
        /\ StatusOf(e) = CREATED
        /\ last = Result(NOT_ALLOWED, <<>>)
        /\ ENABLED (Decline(e, u, r) /\ UNCHANGED vars)

(* C9: cancel on a CREATED or REQUESTED edit sets canceled_at and        *)
(* canceled_by; on a CANCELED edit it returns the edit unchanged and     *)
(* emits no event; on a CONFIRMED or DECLINED edit it fails with         *)
(* NotAllowed and leaves the edit unchanged.                             *)
C9_CancelGuards ==
    [][\A e \in DOMAIN edits, u \in Users :
          Cancel(e, u) =>
             /\ StatusOf(e) \in {CREATED, REQUESTED} =>
                   /\ last' = Result(OK, <<Event(EvCanceled, e)>>)
                   /\ edits' = [edits EXCEPT ![e].canceled_at = now,
                                             ![e].canceled_by = u]
                   /\ now # NULL
             /\ StatusOf(e) = CANCELED =>
                   last' = Result(OK, <<>>) /\ Unchanged
             /\ StatusOf(e) \in {CONFIRMED, DECLINED} =>
                   last' = Result(NOT_ALLOWED, <<>>) /\ Unchanged]_vars

(* cancel has just been refused on a declined edit *)
C9_Witness ==
    \E e \in DOMAIN edits, u \in Users :
        /\ StatusOf(e) = DECLINED
        /\ last = Result(NOT_ALLOWED, <<>>)
        /\ ENABLED (Cancel(e, u) /\ UNCHANGED vars)

(* C10: requestConfirmation on an edit with zero change records fails    *)
(* with InvalidData, sets neither requested_at nor requested_by and      *)
(* emits no requested event.                                             *)
C10_RequestNeedsChanges ==
    [][\A e \in DOMAIN edits, u \in Users :
          (RequestConfirmation(e, u) /\ ChangesOf(e) = {}) =>
             last' = Result(INVALID_DATA, <<>>) /\ Unchanged]_vars

(* a request has just been refused on a fresh edit without changes *)
C10_Witness ==
    \E e \in DOMAIN edits, u \in Users :
        /\ ChangesOf(e) = {}
        /\ edits[e].requested_at = NULL
        /\ StatusOf(e) = CREATED
        /\ last = Result(INVALID_DATA, <<>>)
        /\ ENABLED (RequestConfirmation(e, u) /\ UNCHANGED vars)

(* C11: requestConfirmation on an edit whose requested_at is already set *)
(* returns the edit with the same requested_at and requested_by and      *)
(* emits no event, whatever ran since the first request.                 *)
C11_RequestIdempotent ==
    [][\A e \in DOMAIN edits, u \in Users :
          (RequestConfirmation(e, u) /\ edits[e].requested_at # NULL)
          => last' = Result(OK, <<>>) /\ Unchanged]_vars

(* C12: delete on a REQUESTED, CONFIRMED, DECLINED or CANCELED edit fails *)
(* with NotAllowed, and the edit row, its line items and its change       *)
(* records all remain.                                                    *)
C12_DeleteOnlyCreated ==
    [][\A e \in DOMAIN edits :
          (Delete(e) /\ StatusOf(e) \in {REQUESTED, CONFIRMED, DECLINED,
                                         CANCELED})
          => last' = Result(NOT_ALLOWED, <<>>) /\ Unchanged]_vars

(* delete has just been refused on a requested edit that has line items *)
(* and a change record                                                  *)
C12_Witness ==
    \E e \in DOMAIN edits :
        /\ StatusOf(e) = REQUESTED
        /\ ItemsOfEdit(e) # {} /\ ChangesOf(e) # {}
        /\ last = Result(NOT_ALLOWED, <<>>)
        /\ ENABLED (Delete(e) /\ UNCHANGED vars)

(* C13: delete on a CREATED edit removes the edit row, every line item   *)
(* whose order_edit_id is that edit and every change record of that      *)
(* edit, so that no line item and no change record references the        *)
(* deleted edit afterwards; the other line items are untouched.          *)
C13_DeleteRemovesAll ==
    [][\A e \in DOMAIN edits :
          (Delete(e) /\ StatusOf(e) = CREATED)
          => /\ e \notin DOMAIN edits'
             /\ \A i \in DOMAIN lineItems' : lineItems'[i].order_edit_id # e
             /\ \A c \in DOMAIN changes' : changes'[c].order_edit_id # e
             /\ \A i \in DOMAIN lineItems \ ItemsOfEdit(e) :
                    i \in DOMAIN lineItems' /\ lineItems'[i] = lineItems[i]]_vars

(* the change records that reference a line item *)
ChangeRecordsOf(ch, i) == {c \in DOMAIN ch : ch[c].line_item_id = i}

(* C14: updateLineItem on a cloned item without a change record creates  *)
(* exactly one ITEM_UPDATE change for it, with original_line_item_id the *)
(* item's original item id; a further updateLineItem on the item reuses  *)
(* that record and adds none; after each call the item's quantity is the *)
(* quantity of that call.                                                *)
C14_UpdateReusesChange ==
    [][\A e \in DOMAIN edits, i \in DOMAIN lineItems, q \in ItemQuantities :
          ( /\ UpdateLineItem(e, i, q)
            /\ isOrderEditActive(edits[e])
            /\ lineItems[i].order_edit_id = e
            /\ lineItems[i].original_item_id # NULL )
          => /\ lineItems'[i].quantity = q
             /\ IF ChangeRecordsOf(changes, i) = {}
                THEN \E c \in DOMAIN changes' \ DOMAIN changes :
                        /\ DOMAIN changes' = DOMAIN changes \cup {c}
                        /\ changes'[c] =
                              [type |-> ITEM_UPDATE, order_edit_id |-> e,
                               line_item_id |-> i,
                               original_line_item_id |->
                                   lineItems[i].original_item_id]
                        /\ \A d \in DOMAIN changes : changes'[d] = changes[d]
                ELSE changes' = changes
             /\ Cardinality(ChangeRecordsOf(changes', i)) = 1]_vars

(* a cloned item of an active edit carries a quantity it was not cloned  *)
(* with and exactly one ITEM_UPDATE change, and a further call with      *)
(* another quantity is possible                                          *)
C14_Witness ==
    \E e \in DOMAIN edits, i \in DOMAIN lineItems :
        /\ isOrderEditActive(edits[e])
        /\ lineItems[i].order_edit_id = e
        /\ lineItems[i].original_item_id # NULL
        /\ lineItems[i].quantity = 3
        /\ Cardinality(ChangeRecordsOf(changes, i)) = 1
        /\ \A c \in ChangeRecordsOf(changes, i) : changes[c].type = ITEM_UPDATE
        /\ ENABLED (UpdateLineItem(e, i, 3) /\ UNCHANGED vars)
        /\ ENABLED (UpdateLineItem(e, i, 2) /\ ~UNCHANGED vars)

Finalized == {CONFIRMED, CANCELED, DECLINED}

(* C15: updateLineItem fails with NotAllowed when the edit is CONFIRMED, *)
(* CANCELED or DECLINED and, the edit being active, with InvalidData     *)
(* when the line item's order_edit_id is not the given edit; either way  *)
(* no change record is created, no quantity changes and no adjustment is *)
(* deleted or created.  Stated on every reachable state: no call in      *)
(* these cases has any other outcome.                                    *)
C15_UpdateLineItemGuards ==
    \A e \in DOMAIN edits, i \in ItemArgs, q \in Quantities :
        /\ StatusOf(e) \in Finalized
              => ~ENABLED ( /\ UpdateLineItem(e, i, q)
                            /\ ~( /\ last' = Result(NOT_ALLOWED, <<>>)
                                  /\ Unchanged ) )
        /\ ( /\ StatusOf(e) \notin Finalized
             /\ i \in DOMAIN lineItems
             /\ lineItems[i].order_edit_id # e )
              => ~ENABLED ( /\ UpdateLineItem(e, i, q)
                            /\ ~( /\ last' = Result(INVALID_DATA, <<>>)
                                  /\ Unchanged ) )

(* updateLineItem has just been refused on an active edit for a line    *)
(* item of another, finalized edit, on which it is refused as well      *)
C15_Witness ==
    \E e, f \in DOMAIN edits, i \in DOMAIN lineItems, q \in Quantities :
        /\ StatusOf(e) \notin Finalized
        /\ StatusOf(f) \in Finalized
        /\ lineItems[i].order_edit_id = f
        /\ last = Result(INVALID_DATA, <<>>)
        /\ ENABLED (UpdateLineItem(e, i, q) /\ UNCHANGED vars)
        /\ ENABLED (UpdateLineItem(f, i, q)
                      /\ last' = Result(NOT_ALLOWED, <<>>))

(* C16: addLineItem fails with NotAllowed on a CONFIRMED, CANCELED or    *)
(* DECLINED edit and creates nothing; on an active edit it adds exactly  *)
(* one line item, owned by the edit, and exactly one ITEM_ADD change     *)
(* that references it and has no original_line_item_id, and it creates   *)
(* tax lines for the new item and for no other item.                     *)
C16_AddLineItem ==
    [][\A e \in DOMAIN edits, q \in Quantities :
          AddLineItem(e, q) =>
             /\ StatusOf(e) \in Finalized =>
                   last' = Result(NOT_ALLOWED, <<>>) /\ Unchanged
             /\ StatusOf(e) \notin Finalized =>
                   \E n \in DOMAIN lineItems' \ DOMAIN lineItems,
                      c \in DOMAIN changes' \ DOMAIN changes :
                      /\ DOMAIN lineItems' = DOMAIN lineItems \cup {n}
                      /\ lineItems'[n].order_edit_id = e
                      /\ lineItems'[n].order_id = NULL
                      /\ lineItems'[n].quantity = q
                      /\ lineItems'[n].tax_lines = OF_EDIT
                      /\ DOMAIN changes' = DOMAIN changes \cup {c}
                      /\ changes'[c] =
                            [type |-> ITEM_ADD, order_edit_id |-> e,
                             line_item_id |-> n,
                             original_line_item_id |-> NULL]
                      /\ \A d \in DOMAIN changes : changes'[d] = changes[d]
                      /\ \A j \in DOMAIN lineItems :
                            /\ lineItems'[j].tax_lines = lineItems[j].tax_lines
                            /\ lineItems'[j].quantity = lineItems[j].quantity
                            /\ lineItems'[j].order_id = lineItems[j].order_id
                            /\ lineItems'[j].order_edit_id
                                  = lineItems[j].order_edit_id]_vars

(* an active edit holds a clone with the order's tax lines next to an *)
(* added item with tax lines of its own and its ITEM_ADD change       *)
C16_Witness ==
    \E e \in DOMAIN edits, n, j \in DOMAIN lineItems, c \in DOMAIN changes :
        /\ StatusOf(e) \notin Finalized
        /\ lineItems[n].order_edit_id = e /\ lineItems[j].order_edit_id = e
        /\ lineItems[n].original_item_id = NULL
        /\ lineItems[n].tax_lines = OF_EDIT
        /\ lineItems[j].original_item_id # NULL
        /\ lineItems[j].tax_lines = OF_ORDER
        /\ changes[c].type = ITEM_ADD /\ changes[c].line_item_id = n

(* C17: deleteItemChange fails with InvalidData when the change's        *)
(* order_edit_id differs from the given edit id and, the change being    *)
(* the edit's, with NotAllowed when the edit's confirmed_at or           *)
(* canceled_at is set; either way the change record is not deleted.      *)
C17_DeleteItemChangeGuards ==
    [][\A e \in DOMAIN edits, c \in DOMAIN changes :
          DeleteItemChange(e, c) =>
             /\ changes[c].order_edit_id # e =>
                   last' = Result(INVALID_DATA, <<>>) /\ Unchanged
             /\ ( /\ changes[c].order_edit_id = e
                  /\ (edits[e].confirmed_at # NULL
                        \/ edits[e].canceled_at # NULL) ) =>
                   last' = Result(NOT_ALLOWED, <<>>) /\ Unchanged]_vars

(* deleteItemChange has just been refused for a change of a canceled    *)
(* edit, both through that edit and through another edit               *)
C17_Witness ==
    \E e, f \in DOMAIN edits, c \in DOMAIN changes :
        /\ e # f
        /\ changes[c].order_edit_id = f
        /\ edits[f].canceled_at # NULL
        /\ last = Result(INVALID_DATA, <<>>)
        /\ ENABLED (DeleteItemChange(e, c) /\ UNCHANGED vars)
        /\ ENABLED (DeleteItemChange(f, c)
                      /\ last' = Result(NOT_ALLOWED, <<>>))

(* what a call on edit e that is to announce itself as ev may emit: one  *)
(* event ev carrying e when it changed the edit, no event when it failed *)
(* or returned the edit as it was                                        *)
Emits(e, ev) ==
    /\ edits' # edits => last' = Result(OK, <<Event(ev, e)>>)
    /\ last'.result # OK => last'.events = <<>>
    /\ Len(last'.events) <= 1

EarlyReturnIsSilent == edits' = edits => last'.events = <<>>

(* C18: each successful create, update, requestConfirmation, decline,   *)
(* cancel and confirm that changes the edit emits exactly one event,    *)
(* named for the operation and carrying the edit id; a call that fails  *)
(* or returns early as an idempotent re-entry emits no event.           *)
C18_OneEventPerChange ==
    [][/\ \A o \in Orders, u \in Users :
             Create(o, u) =>
                /\ edits' # edits =>
                      \E n \in DOMAIN edits' \ DOMAIN edits :
                          last' = Result(OK, <<Event(EvCreated, n)>>)
                /\ edits' = edits => last' = Result(INVALID_DATA, <<>>)
       /\ \A e \in DOMAIN edits, data \in UpdateInputs :
             Update(e, data) => Emits(e, EvUpdated)
       /\ \A e \in DOMAIN edits, u \in Users :
             /\ RequestConfirmation(e, u) =>
                   Emits(e, EvRequested) /\ EarlyReturnIsSilent
             /\ Cancel(e, u) => Emits(e, EvCanceled) /\ EarlyReturnIsSilent
             /\ Confirm(e, u) => Emits(e, EvConfirmed) /\ EarlyReturnIsSilent
             /\ \A r \in Reasons :
                   Decline(e, u, r) =>
                      Emits(e, EvDeclined) /\ EarlyReturnIsSilent]_vars

(* an edit carries an updated note and has been confirmed just now, and *)
(* a repeated confirm would return it without an event                  *)
C18_Witness ==
    \E e \in DOMAIN edits, u \in Users :
        /\ edits[e].internal_note \in Notes
        /\ StatusOf(e) = CONFIRMED
        /\ last = Result(OK, <<Event(EvConfirmed, e)>>)
        /\ ENABLED (Confirm(e, u) /\ last' = Result(OK, <<>>))


(* C19: a tax-calculation request whose key already has recovery_point  *)
(* finished returns exactly the stored response_code and response_body  *)
(* and executes no stage handler, for every repeated request.           *)
C19_FinishedKeyReplays ==
    \A r \in DOMAIN reqs :
        (reqs[r].pc = "done" /\ reqs[r].found.recovery_point = FINISHED)
        => /\ reqs[r].response = Sent(reqs[r].found.response_code,
                                      reqs[r].found.response_body)
           /\ reqs[r].ran = 0

(* every request has answered from a key that was finished when it came *)
C19_Witness ==
    /\ DOMAIN reqs = Reqs
    /\ \A r \in Reqs :
          /\ reqs[r].pc = "done"
          /\ reqs[r].found.recovery_point = FINISHED
          /\ reqs[r].response.kind = "sent"
    /\ \E r \in DOMAIN reqs : reqs[r].response.code = HTTP_ERROR

(* C20: when the stage handler reports an error, the key is persisted   *)
(* as finished with a 500 response, the request ends by returning that  *)
(* stored response instead of raising the error, and a later request    *)
(* with the key gets the stored response without running the stage.     *)
C20_StageErrorAnswered ==
    \A r \in DOMAIN reqs :
        (reqs[r].pc = "done" /\ reqs[r].ran > 0 /\ reqs[r].err)
        => /\ ledger[reqs[r].key].recovery_point = FINISHED
           /\ ledger[reqs[r].key].response_code = HTTP_ERROR
           /\ reqs[r].response = Sent(ledger[reqs[r].key].response_code,
                                      ledger[reqs[r].key].response_body)

(* C21: a request whose key is found at a recovery point other than      *)
(* started or finished runs no stage, leaves the row finished with code  *)
(* 500 and the diagnostic body, and answers with that 500.               *)
C21_UnknownPointIs500 ==
    \A r \in DOMAIN reqs :
        ( /\ reqs[r].pc = "done"
          /\ reqs[r].response.kind # "none"
          /\ reqs[r].found # NoKey
          /\ reqs[r].found.recovery_point \notin {STARTED, FINISHED} )
        => /\ reqs[r].ran = 0
           /\ ledger[reqs[r].key] =
                 IdempotencyKey(FINISHED, HTTP_ERROR, UnknownBody)
           /\ reqs[r].response = Sent(HTTP_ERROR, UnknownBody)

(* a request that found its key at another stage's recovery point has   *)
(* answered                                                             *)
C21_Witness ==
    \E r \in DOMAIN reqs :
        /\ reqs[r].pc = "done"
        /\ reqs[r].found.recovery_point = TAX_LINES
        /\ reqs[r].response.kind = "sent"

(* the requests that have run the stage handler for a key *)
StageRunsOf(k) == {r \in DOMAIN reqs : reqs[r].key = k /\ reqs[r].ran > 0}

(* C22: of two requests with the same key the stage handler never runs  *)
(* in both at the same time, a request that finds the row locked ends   *)
(* with an error without having run the handler, and the handler runs   *)
(* at most once for the key.                                            *)
C22_StageAtMostOncePerKey ==
    /\ \A r1, r2 \in DOMAIN reqs :
          ( /\ r1 # r2
            /\ reqs[r1].key = reqs[r2].key
            /\ reqs[r1].pc = "stage" )
          => reqs[r2].pc # "stage"
    /\ \A r \in DOMAIN reqs :
          (reqs[r].err /\ reqs[r].ran = 0) => reqs[r].pc \in {"exit", "done"}
    /\ \A k \in DOMAIN ledger : Cardinality(StageRunsOf(k)) <= 1

C24_FinalStatusesAbsorb ==
    [][ /\ \A e \in DOMAIN edits :
              StatusOf(e) \in Finalized
              => /\ e \in DOMAIN edits'
                 /\ StatusAfter(e) = StatusOf(e)
                 /\ e \notin retrieveActive(edits[e].order_id)
        /\ \A o \in Orders, u \in Users :
              ( /\ \A e \in DOMAIN edits :
                      edits[e].order_id = o => StatusOf(e) \in Finalized
                /\ Create(o, u) )
              => last'.result = OK ]_vars

(* an order has a canceled edit and, created after it, an active one,  *)
(* and the last call was refused                                       *)
C24_Witness ==
    \E e, f \in DOMAIN edits :
        /\ StatusOf(e) = CANCELED
        /\ edits[f].order_id = edits[e].order_id
        /\ f \in retrieveActive(edits[e].order_id)
        /\ last.result = NOT_ALLOWED

(* the sum of quantity times unit price over a set of line items *)
PricedAt(S, price) ==
    SumOver([i \in S |-> lineItems[i].quantity * price], S)

(* C25: getTotals is computed over the edit's own items, not the order's *)
(* live ones: subtotal is the price of the edit's items, tax_total the   *)
(* flat rate on it and total their sum; an edit whose only item has      *)
(* quantity 2 at unit price 1000 and 10% tax gets 2000, 200 and 2200;    *)
(* getTotals writes nothing.                                             *)
C25_TotalsOverEditItems ==
    [][\A e \in DOMAIN edits :
          getTotals(e) =>
             /\ Unchanged
             /\ last'.totals.subtotal = PricedAt(ItemsOfEdit(e), 1000)
             /\ last'.totals.tax_total = PricedAt(ItemsOfEdit(e), 100)
             /\ last'.totals.total = PricedAt(ItemsOfEdit(e), 1100)
             /\ ( \E i \in DOMAIN lineItems :
                     ItemsOfEdit(e) = {i} /\ lineItems[i].quantity = 2 )
                => /\ last'.totals.subtotal = 2000
                   /\ last'.totals.tax_total = 200
                   /\ last'.totals.total = 2200 ]_vars

(* totals of 2200 were returned for an edit whose only item has        *)
(* quantity 2 while the order's live item has another quantity         *)
C25_Witness ==
    /\ "totals" \in DOMAIN last
    /\ last.totals.total = 2200
    /\ \E e \in DOMAIN edits, i, j \in DOMAIN lineItems :
          /\ ItemsOfEdit(e) = {i}
          /\ lineItems[i].quantity = 2
          /\ ItemsOfOrder(edits[e].order_id) = {j}
          /\ lineItems[j].quantity # 2

(* C26: the loop of the handler ends for every recovery point the key   *)
(* is found at and every outcome of the stage, and a request runs the   *)
(* stage handler at most once: not again after it failed, and not again *)
(* after it succeeded, because the row is then finished.                *)
C26_RunnerTerminates ==
    /\ [](\A r \in DOMAIN reqs : reqs[r].ran <= 1)
    /\ \A r \in Reqs :
          (r \in DOMAIN reqs) ~> (r \in DOMAIN reqs /\ reqs[r].pc = "done")

(* one request has answered after its stage succeeded and another has  *)
(* ended after its stage failed, each having run the stage once        *)
C26_Witness ==
    \E r1, r2 \in DOMAIN reqs :
        /\ reqs[r1].pc = "done" /\ reqs[r1].ran = 1
        /\ reqs[r1].response = Sent(HTTP_OK, CartBody)
        /\ reqs[r2].pc = "done" /\ reqs[r2].ran = 1
        /\ reqs[r2].err

C27_FoundFinishedWritesNothing ==
    [][/\ DOMAIN ledger \subseteq DOMAIN ledger'
       /\ \A r \in DOMAIN reqs :
            ( /\ reqs[r].found # NoKey
              /\ reqs[r].found.recovery_point = FINISHED
              /\ reqs'[r] # reqs[r] )
            => ledger' = ledger ]_vars

(* a step of addLineItem or updateLineItem on edit e that ran to its end, *)
(* and so refreshed the adjustments of the edit                          *)
RefreshedStep(e) ==
    /\ last'.result = OK
    /\ \E q \in ItemQuantities :
          \/ AddLineItem(e, q)
          \/ \E i \in DOMAIN lineItems : UpdateLineItem(e, i, q)

(* C28: after refreshAdjustments of an edit, the adjustments its items   *)
(* held before are gone, each of its items holds exactly the adjustment  *)
(* of one recomputation over all of the edit's items, and the            *)
(* adjustments of every other item, the order's live ones among them,    *)
(* are as they were.                                                     *)
C28_RefreshReplacesAdjustments ==
    [][\A e \in DOMAIN edits :
          RefreshedStep(e) =>
             LET cart == CartItems(lineItems', e)
             IN  /\ \A i \in CartItems(lineItems, e) :
                       /\ deleteAdjustments(lineItems, e)[i].adjustments = {}
                       /\ \A a \in lineItems[i].adjustments :
                             a # cart => a \notin lineItems'[i].adjustments
                 /\ \A i \in cart : lineItems'[i].adjustments = {cart}
                 /\ \A i \in DOMAIN lineItems :
                       lineItems[i].order_edit_id # e
                       => lineItems'[i].adjustments = lineItems[i].adjustments
       ]_vars

(* an edit's clone and the item added to it hold the one adjustment      *)
(* computed over both, the clone's copied adjustment is gone and the     *)
(* order's live item still holds its own                                 *)
C28_Witness ==
    /\ last.result = OK
    /\ \E e \in DOMAIN edits, i, j, k \in DOMAIN lineItems :
          /\ i # j
          /\ CartItems(lineItems, e) = {i, j}
          /\ lineItems[i].original_item_id = k
          /\ lineItems[k].order_id = edits[e].order_id
          /\ lineItems[k].adjustments = {{k}}
          /\ lineItems[i].adjustments = {{i, j}}
          /\ lineItems[j].adjustments = {{i, j}}

(* the line items of every order with their quantities *)
OrderItems ==
    [o \in Orders |-> [i \in ItemsOfOrder(o) |-> lineItems[i].quantity]]

(* C29: no call but a confirm that succeeds changes which line items    *)
(* belong to an order or the quantity of any of them: create,           *)
(* addLineItem, updateLineItem, deleteItemChange, requestConfirmation,  *)
(* decline, cancel and delete leave the order's items as they were.     *)
C29_OnlyConfirmTouchesOrder ==
    [][OrderItems' # OrderItems
       => /\ last'.result = OK
          /\ \E e \in DOMAIN edits, u \in Users : Confirm(e, u) ]_vars

(* an edit not yet confirmed has been given an item of another quantity *)
(* and a change record and has been requested, and the order still has  *)
(* its one placed item at its placed quantity                           *)
C29_Witness ==
    \E e \in DOMAIN edits :
        /\ isOrderEditActive(edits[e])
        /\ edits[e].requested_at # NULL
        /\ \E c \in DOMAIN changes : changes[c].order_edit_id = e
        /\ \E i \in ItemsOfEdit(e) : lineItems[i].quantity = 2
        /\ OrderItems[edits[e].order_id] = (edits[e].order_id :> 1)

(* the final timestamps an edit carries *)
FinalStamps(oe) ==
    {f \in {"confirmed_at", "declined_at", "canceled_at"} : oe[f] # NULL}

(* C30: whatever requestConfirmation, decline, cancel and confirm calls *)
(* have run, each as one transaction, an edit carries at most one of    *)
(* confirmed_at, declined_at and canceled_at, and an edit that carries  *)
(* declined_at carries requested_at.                                    *)
C30_OneFinalStamp ==
    \A e \in DOMAIN edits :
        /\ Cardinality(FinalStamps(edits[e])) <= 1
        /\ edits[e].declined_at # NULL => edits[e].requested_at # NULL

(* one edit was requested and declined, a later one of the same order   *)
(* was requested and then canceled or confirmed                         *)
C30_Witness ==
    \E d, e \in DOMAIN edits :
        /\ FinalStamps(edits[d]) = {"declined_at"}
        /\ edits[d].requested_at # NULL
        /\ edits[e].requested_at # NULL
        /\ \/ FinalStamps(edits[e]) = {"canceled_at"}
           \/ FinalStamps(edits[e]) = {"confirmed_at"}

(* the cloned items of edit e that belong to its order *)
AttachedItems(e) ==
    {i \in ItemsOfEdit(e) : lineItems[i].order_id = edits[e].order_id}

(* C31: when confirm and cancel of one edit run concurrently, each      *)
(* having read the status before the other wrote, no edit ends with     *)
(* both confirmed_at and canceled_at set, and no edit ends with status  *)
(* CANCELED while its cloned items are attached to the order.           *)
C31_ConfirmCancelExclusive ==
    \A e \in DOMAIN edits :
        /\ ~(edits[e].confirmed_at # NULL /\ edits[e].canceled_at # NULL)
        /\ StatusOf(e) = CANCELED => AttachedItems(e) = {}

(* C32: a requestConfirmation call on an edit whose status is          *)
(* CONFIRMED, DECLINED or CANCELED leaves requested_at as it was and   *)
(* emits no requested event.                                           *)
C32_NoRequestOnFinalEdit ==
    [][\A e \in DOMAIN edits :
          ( /\ StatusOf(e) \in {CONFIRMED, DECLINED, CANCELED}
            /\ \E u \in Users : RequestConfirmation(e, u) )
          => /\ edits'[e].requested_at = edits[e].requested_at
             /\ \A k \in DOMAIN last'.events :
                   last'.events[k].name # EvRequested ]_vars

(* C33: for an edit whose status is CONFIRMED, DECLINED or CANCELED no   *)
(* addLineItem, updateLineItem or deleteItemChange call adds or removes  *)
(* a change record.                                                      *)
C33_ChangesFrozenOnFinalEdit ==
    [][\A e \in DOMAIN edits :
          ( /\ StatusOf(e) \in {CONFIRMED, DECLINED, CANCELED}
            /\ \/ \E q \in Quantities : AddLineItem(e, q)
               \/ \E i \in ItemArgs, q \in Quantities : UpdateLineItem(e, i, q)
               \/ \E c \in DOMAIN changes \cup {NULL} :
                     DeleteItemChange(e, c) )
          => changes' = changes ]_vars

(* the part that holds: addLineItem and updateLineItem on such an edit, *)
(* and deleteItemChange on a CONFIRMED or CANCELED one, write no change *)
(* record                                                               *)
C33_ChangesFrozenButDeclinedDelete ==
    [][\A e \in DOMAIN edits :
          ( /\ StatusOf(e) \in {CONFIRMED, DECLINED, CANCELED}
            /\ \/ \E q \in Quantities : AddLineItem(e, q)
               \/ \E i \in ItemArgs, q \in Quantities : UpdateLineItem(e, i, q)
               \/ /\ StatusOf(e) # DECLINED
                  /\ \E c \in DOMAIN changes \cup {NULL} :
                        DeleteItemChange(e, c) )
          => changes' = changes ]_vars

(* the items of edit e are the clones of its order's items, one each, *)
(* at the quantities of the items they were cloned from               *)
OnlyClones(e) ==
    /\ \A i \in ItemsOfEdit(e) :
          /\ lineItems[i].original_item_id \in ItemsOfOrder(edits[e].order_id)
          /\ lineItems[i].quantity =
                lineItems[lineItems[i].original_item_id].quantity
    /\ \A o \in ItemsOfOrder(edits[e].order_id) :
          Cardinality({i \in ItemsOfEdit(e) :
                          lineItems[i].original_item_id = o}) = 1

(* C34: after any addLineItem, updateLineItem and deleteItemChange calls *)
(* every difference between an edit's items and its order's items is     *)
(* covered by a change record: an edit without change records has        *)
(* exactly the clones of the order's items at their original quantities, *)
(* and no line item is referenced by more than one change record.        *)
C34_ChangesCoverDifferences ==
    /\ \A e \in DOMAIN edits : ChangesOf(e) = {} => OnlyClones(e)
    /\ \A i \in DOMAIN lineItems : Cardinality(ChangesForItem(i)) <= 1

(* the part that holds: no line item is referenced by more than one *)
(* change record                                                    *)
C34_OneChangePerItem ==
    \A i \in DOMAIN lineItems : Cardinality(ChangesForItem(i)) <= 1

====
